---- MODULE Spec2Model ----
(***************************************************************************)
(* Model of the chunking / Merkle-tree / proof code of src/src/merkle.rs.  *)
(*                                                                         *)
(* Byte strings are sequences of items.  An item is one byte, except that  *)
(* the content of the input file is kept as a single run item (its bytes   *)
(* are only ever hashed, never inspected).  SHA-256 is modelled as a       *)
(* collision-free function: the digest of a message is 32 bytes, byte i of *)
(* which remembers the message and i, so two digests are equal exactly     *)
(* when the messages are equal.                                            *)
(***************************************************************************)
EXTENDS Integers, Sequences, FiniteSets, TLC

\* ---- program constants (merkle.rs:81-84) ----
MAX_CHUNK_SIZE == 262144
MIN_CHUNK_SIZE == 32768
HASH_SIZE == 32
NOTE_SIZE == 32

\* ---- bounds of the model ----
\* most full MAX_CHUNK_SIZE chunks in an input buffer
MaxFull == 2
\* lengths are taken within Near bytes of the interesting remainders
Near == 1

Min(a, b) == IF a < b THEN a ELSE b

\* Option<T>: None is the empty sequence, Some(x) the one-element sequence
None == <<>>
Some(x) == <<x>>
IsSome(o) == Len(o) = 1
IsNone(o) == Len(o) = 0
Unwrap(o) == o[1]

\* ---- byte strings ----
\* A byte string is a sequence of runs.  A run is n consecutive bytes:
\*   "lit"   n bytes of value a
\*   "hb"    bytes a .. a+n-1 of the SHA-256 digest of the message t; b is
\*           the xor mask applied to the byte since (only on runs of one
\*           byte; 0 for untouched bytes)
\*   "file"  n bytes of the input file from position a on: content that
\*           differs from place to place
\*   "other" n bytes from position a on of content that is not in the file
\* Byte strings are kept normal (no empty run, no two adjacent runs that
\* could be one), so that equal byte strings are equal values.
Run(k, t, a, b, n) == [k |-> k, t |-> t, a |-> a, b |-> b, n |-> n]

Lits(v, n) == IF n = 0 THEN <<>> ELSE <<Run("lit", <<>>, v, 0, n)>>
Lit(v) == Lits(v, 1)

Mergeable(x, y) ==
    /\ x.k = y.k
    /\ x.t = y.t
    /\ x.b = 0 /\ y.b = 0
    /\ IF x.k = "lit" THEN y.a = x.a ELSE y.a = x.a + x.n

RECURSIVE Norm(_)
Norm(s) ==
    IF s = <<>> THEN <<>>
    ELSE LET r == Norm(Tail(s))
         IN  IF s[1].n = 0 THEN r
             ELSE IF r # <<>> /\ Mergeable(s[1], r[1])
             THEN <<[s[1] EXCEPT !.n = s[1].n + r[1].n]>> \o Tail(r)
             ELSE <<s[1]>> \o r

\* concatenation
Cat(s1, s2) == Norm(s1 \o s2)

\* length in bytes
RECURSIVE BLen(_)
BLen(s) == IF s = <<>> THEN 0 ELSE s[1].n + BLen(Tail(s))

\* a run without its first d bytes
RunDrop(run, d) ==
    [run EXCEPT !.n = run.n - d, !.a = IF run.k = "lit" THEN run.a ELSE run.a + d]

\* the first n bytes of s (all of s when it is shorter)
RECURSIVE BTake(_, _)
BTake(s, n) ==
    IF n <= 0 \/ s = <<>> THEN <<>>
    ELSE IF s[1].n <= n THEN <<s[1]>> \o BTake(Tail(s), n - s[1].n)
    ELSE <<[s[1] EXCEPT !.n = n]>>

\* s without its first n bytes
RECURSIVE BDrop(_, _)
BDrop(s, n) ==
    IF s = <<>> THEN <<>>
    ELSE IF n <= 0 THEN s
    ELSE IF s[1].n <= n THEN BDrop(Tail(s), n - s[1].n)
    ELSE <<RunDrop(s[1], n)>> \o Tail(s)

\* bytes i..j of s, counted from 1
BSub(s, i, j) == BTake(BDrop(s, i - 1), j - i + 1)

\* byte i of s, as a run of one byte
ByteAt(s, i) == BSub(s, i, i)[1]

\* sha2::Sha256 as a collision-free function of the bytes fed to it
Sha256Digest(input) == <<Run("hb", input, 0, 0, HASH_SIZE)>>

\* Sha256::default(): a context with nothing buffered
Sha256Default == <<>>

\* hash_sha256: update(message) then finalize_reset(), which leaves the
\* context empty again
hash_sha256(message, context) == Sha256Digest(Cat(context, message))

RECURSIVE ConcatAll(_)
ConcatAll(ss) == IF ss = <<>> THEN <<>> ELSE Cat(Head(ss), ConcatAll(Tail(ss)))

\* hash_all_sha256: SHA256 of the concatenated SHA256 of each message
hash_all_sha256(messages, context) ==
    hash_sha256(
        ConcatAll([i \in 1..Len(messages) |-> hash_sha256(messages[i], context)]),
        context)

\* A u32 is kept as its two 16-bit halves (the model checker's integers
\* stop at 2^31 - 1).
\* `x as u32` for a usize x: x modulo 2^32
AsU32(x) == [hi |-> (x \div 65536) % 65536, lo |-> x % 65536]

\* `u as usize < x`, for a u32 u and a usize x
U32Less(u, x) ==
    \/ u.hi < x \div 65536
    \/ u.hi = x \div 65536 /\ u.lo < x % 65536

\* to_be_bytes with the least significant byte first
to_le_bytes(u) ==
    Norm(Lit(u.lo % 256) \o Lit(u.lo \div 256) \o Lit(u.hi % 256) \o Lit(u.hi \div 256))

\* u32::to_be_bytes
to_be_bytes(u) ==
    Norm(Lit(u.hi \div 256) \o Lit(u.hi % 256) \o Lit(u.lo \div 256) \o Lit(u.lo % 256))

\* u32::from_be_bytes
from_be_bytes(bs) ==
    [hi |-> ByteAt(bs, 1).a * 256 + ByteAt(bs, 2).a,
     lo |-> ByteAt(bs, 3).a * 256 + ByteAt(bs, 4).a]

\* Helpers<u32>::to_note_vec
to_note_vec(n) == Cat(Lits(0, NOTE_SIZE - 4), to_be_bytes(n))

\* ---- generate_leaves ----
\* slice.chunks(size) over the byte range [lo, hi) of the input
RECURSIVE Chunks(_, _, _)
Chunks(lo, hi, size) ==
    IF lo >= hi THEN <<>>
    ELSE <<[lo |-> lo, hi |-> Min(lo + size, hi)]>> \o Chunks(Min(lo + size, hi), hi, size)

ChunkLen(c) == c.hi - c.lo

\* the bytes of a chunk of the input
ChunkBytes(data, c) ==
    IF c.hi = c.lo THEN <<>>
    ELSE IF data.kind = "zeros" THEN Lits(0, c.hi - c.lo)
    ELSE <<Run(data.kind, <<>>, c.lo, 0, c.hi - c.lo)>>

\* Resplit with the halves rounded down
Resplit_floor(data_chunks) ==
    LET n == Len(data_chunks)
        last_two == [lo |-> data_chunks[n - 1].lo, hi |-> data_chunks[n].hi]
        chunk_size == ChunkLen(last_two) \div 2
    IN  SubSeq(data_chunks, 1, n - 2) \o Chunks(last_two.lo, last_two.hi, chunk_size)

\* lines 106-110: merge the last two chunks and halve them
Resplit(data_chunks) ==
    LET n == Len(data_chunks)
        last_two == [lo |-> data_chunks[n - 1].lo, hi |-> data_chunks[n].hi]
        chunk_size == (ChunkLen(last_two) \div 2)
                        + (IF ChunkLen(last_two) % 2 # 0 THEN 1 ELSE 0)
    IN  SubSeq(data_chunks, 1, n - 2) \o Chunks(last_two.lo, last_two.hi, chunk_size)

\* SplitChunks without the trailing zero-length chunk
SplitChunks_nopush(data) ==
    LET greedy == Chunks(0, data.len, MAX_CHUNK_SIZE)
        merged == IF Len(greedy) > 1 /\ ChunkLen(greedy[Len(greedy)]) < MIN_CHUNK_SIZE
                  THEN Resplit(greedy) ELSE greedy
    IN  [panic |-> Len(merged) = 0, chunks |-> merged]

\* SplitChunks that leaves a short last chunk as it is
SplitChunks_nomerge(data) ==
    LET merged == Chunks(0, data.len, MAX_CHUNK_SIZE)
    IN  IF Len(merged) = 0
        THEN [panic |-> TRUE, chunks |-> <<>>]
        ELSE [panic |-> FALSE,
              chunks |-> IF ChunkLen(merged[Len(merged)]) = MAX_CHUNK_SIZE
                         THEN Append(merged, [lo |-> data.len, hi |-> data.len])
                         ELSE merged]

\* lines 101-114: the chunks of the input, before they are hashed; panic
\* when `last().unwrap()` finds no chunk
SplitChunks(data) ==
    LET greedy == Chunks(0, data.len, MAX_CHUNK_SIZE)
        merged == IF Len(greedy) > 1 /\ ChunkLen(greedy[Len(greedy)]) < MIN_CHUNK_SIZE
                  THEN Resplit(greedy) ELSE greedy
    IN  IF Len(merged) = 0
        THEN [panic |-> TRUE, chunks |-> <<>>]
        ELSE [panic |-> FALSE,
              chunks |-> IF ChunkLen(merged[Len(merged)]) = MAX_CHUNK_SIZE
                         THEN Append(merged, [lo |-> data.len, hi |-> data.len])
                         ELSE merged]

\* lines 116-123: the fold turning chunk lengths into byte ranges
RECURSIVE ChunkRanges(_, _)
ChunkRanges(data_chunks, min_byte_range) ==
    IF data_chunks = <<>> THEN <<>>
    ELSE LET max_byte_range == min_byte_range + ChunkLen(Head(data_chunks))
         IN  <<[min |-> min_byte_range, max |-> max_byte_range]>>
                \o ChunkRanges(Tail(data_chunks), max_byte_range)

\* lines 129-142: one leaf node
LeafNode(data, chunk, range, context) ==
    LET data_hash == hash_sha256(ChunkBytes(data, chunk), context)
        offset == to_note_vec(AsU32(range.max))
        id == hash_all_sha256(<<data_hash, offset>>, context)
    IN  [id |-> id, data_hash |-> Some(data_hash),
         min_byte_range |-> range.min, max_byte_range |-> range.max,
         left_child |-> None, right_child |-> None]

generate_leaves(data) ==
    LET split == SplitChunks(data)
        chunk_ranges == ChunkRanges(split.chunks, 0)
        context == Sha256Default
    IN  [panic |-> split.panic,
         leaves |-> [i \in 1..Len(split.chunks) |->
                        LeafNode(data, split.chunks[i], chunk_ranges[i], context)]]

\* ---- tree construction ----
\* hash_branch with the note taken from the right child
hash_branch_rightnote(left, right, context) ==
    LET max_byte_range == to_note_vec(AsU32(right.max_byte_range))
        id == hash_all_sha256(<<left.id, right.id, max_byte_range>>, context)
    IN  [id |-> id, data_hash |-> None,
         min_byte_range |-> left.max_byte_range,
         max_byte_range |-> right.max_byte_range,
         left_child |-> Some(left), right_child |-> Some(right)]

\* hash_branch with the range ending at the left child's end
hash_branch_leftmax(left, right, context) ==
    LET max_byte_range == to_note_vec(AsU32(left.max_byte_range))
        id == hash_all_sha256(<<left.id, right.id, max_byte_range>>, context)
    IN  [id |-> id, data_hash |-> None,
         min_byte_range |-> left.max_byte_range,
         max_byte_range |-> left.max_byte_range,
         left_child |-> Some(left), right_child |-> Some(right)]

hash_branch(left, right, context) ==
    LET max_byte_range == to_note_vec(AsU32(left.max_byte_range))
        id == hash_all_sha256(<<left.id, right.id, max_byte_range>>, context)
    IN  [id |-> id, data_hash |-> None,
         min_byte_range |-> left.max_byte_range,
         max_byte_range |-> right.max_byte_range,
         left_child |-> Some(left), right_child |-> Some(right)]

\* build_layer pairing an odd last node with itself
RECURSIVE build_layer_selfpair(_, _)
build_layer_selfpair(nodes, context) ==
    IF nodes = <<>> THEN <<>>
    ELSE IF Len(nodes) >= 2
         THEN <<hash_branch(nodes[1], nodes[2], context)>>
                \o build_layer_selfpair(Tail(Tail(nodes)), context)
         ELSE <<hash_branch(nodes[1], nodes[1], context)>>

\* build_layer hashing each pair with the right node first
RECURSIVE build_layer_swapped(_, _)
build_layer_swapped(nodes, context) ==
    IF nodes = <<>> THEN <<>>
    ELSE IF Len(nodes) >= 2
         THEN <<hash_branch(nodes[2], nodes[1], context)>>
                \o build_layer_swapped(Tail(Tail(nodes)), context)
         ELSE <<nodes[1]>>

RECURSIVE build_layer(_, _)
build_layer(nodes, context) ==
    IF nodes = <<>> THEN <<>>
    ELSE IF Len(nodes) >= 2
         THEN <<hash_branch(nodes[1], nodes[2], context)>>
                \o build_layer(Tail(Tail(nodes)), context)
         ELSE <<nodes[1]>>


\* ---- resolve_proofs ----
\* usize arithmetic `a - b`: a build with overflow checks panics when the
\* result would be negative, a build without them wraps; a negative val
\* stands for the wrapped value 2^N - (b - a)
UsizeSub(a, b, overflow_checks) ==
    [panic |-> (a < b) /\ overflow_checks, val |-> a - b]

\* the `Leaf` pattern of lines 197-203
IsLeafPattern(node) ==
    IsSome(node.data_hash) /\ IsNone(node.left_child) /\ IsNone(node.right_child)

\* the `Branch` pattern of lines 210-216
IsBranchPattern(node) ==
    IsNone(node.data_hash) /\ IsSome(node.left_child) /\ IsSome(node.right_child)

\* resolve_proofs with the right subtree's proofs before the left's
RECURSIVE resolve_proofs_rightfirst(_, _, _)
resolve_proofs_rightfirst(node, proof, overflow_checks) ==
    LET p == IF IsSome(proof) THEN Unwrap(proof) ELSE [offset |-> 0, proof |-> <<>>]
    IN  IF IsLeafPattern(node)
        THEN LET off == UsizeSub(node.max_byte_range, 1, overflow_checks)
             IN  IF off.panic
                 THEN [outcome |-> "panic", proofs |-> <<>>]
                 ELSE [outcome |-> "Ok",
                       proofs |-> << [offset |-> off.val,
                                      proof |-> Cat(Cat(p.proof, Unwrap(node.data_hash)),
                                                    to_note_vec(AsU32(node.max_byte_range)))] >>]
        ELSE IF IsBranchPattern(node)
        THEN LET left_child == Unwrap(node.left_child)
                 right_child == Unwrap(node.right_child)
                 acc == [offset |-> p.offset,
                         proof |-> Cat(Cat(Cat(p.proof, left_child.id), right_child.id),
                                       to_note_vec(AsU32(node.min_byte_range)))]
                 left_proof == resolve_proofs_rightfirst(left_child, Some(acc), overflow_checks)
                 right_proof == resolve_proofs_rightfirst(right_child, Some(acc), overflow_checks)
             IN  IF left_proof.outcome # "Ok" THEN left_proof
                 ELSE IF right_proof.outcome # "Ok" THEN right_proof
                 ELSE [outcome |-> "Ok", proofs |-> right_proof.proofs \o left_proof.proofs]
        ELSE [outcome |-> "panic", proofs |-> <<>>]

RECURSIVE resolve_proofs(_, _, _)
resolve_proofs(node, proof, overflow_checks) ==
    LET p == IF IsSome(proof) THEN Unwrap(proof) ELSE [offset |-> 0, proof |-> <<>>]
    IN  IF IsLeafPattern(node)
        THEN LET off == UsizeSub(node.max_byte_range, 1, overflow_checks)
             IN  IF off.panic
                 THEN [outcome |-> "panic", proofs |-> <<>>]
                 ELSE [outcome |-> "Ok",
                       proofs |-> << [offset |-> off.val,
                                      proof |-> Cat(Cat(p.proof, Unwrap(node.data_hash)),
                                                    to_note_vec(AsU32(node.max_byte_range)))] >>]
        ELSE IF IsBranchPattern(node)
        THEN LET left_child == Unwrap(node.left_child)
                 right_child == Unwrap(node.right_child)
                 acc == [offset |-> p.offset,
                         proof |-> Cat(Cat(Cat(p.proof, left_child.id), right_child.id),
                                       to_note_vec(AsU32(node.min_byte_range)))]
                 left_proof == resolve_proofs(left_child, Some(acc), overflow_checks)
                 right_proof == resolve_proofs(right_child, Some(acc), overflow_checks)
             IN  IF left_proof.outcome # "Ok" THEN left_proof
                 ELSE IF right_proof.outcome # "Ok" THEN right_proof
                 ELSE [outcome |-> "Ok", proofs |-> left_proof.proofs \o right_proof.proofs]
        \* `_ => unreachable!()`
        ELSE [outcome |-> "panic", proofs |-> <<>>]

\* ---- proof records ----
\* LeafProof::try_from_proof_slice (borsh: the slice must be exactly the
\* 32 + 24 + 8 bytes of the struct)
LeafProof_try_from_proof_slice(slice) ==
    IF BLen(slice) # HASH_SIZE + (NOTE_SIZE - 8) + 8
    THEN [outcome |-> "InvalidProof"]
    ELSE [outcome |-> "Ok",
          data_hash |-> BSub(slice, 1, HASH_SIZE),
          notepad |-> BSub(slice, HASH_SIZE + 1, HASH_SIZE + NOTE_SIZE - 8),
          offset |-> BSub(slice, HASH_SIZE + NOTE_SIZE - 7, HASH_SIZE + NOTE_SIZE)]

\* BranchProof::try_from_proof_slice (32 + 32 + 24 + 8 bytes)
BranchProof_try_from_proof_slice(slice) ==
    IF BLen(slice) # 2 * HASH_SIZE + (NOTE_SIZE - 8) + 8
    THEN [outcome |-> "InvalidProof"]
    ELSE [outcome |-> "Ok",
          left_id |-> BSub(slice, 1, HASH_SIZE),
          right_id |-> BSub(slice, HASH_SIZE + 1, 2 * HASH_SIZE),
          notepad |-> BSub(slice, 2 * HASH_SIZE + 1, 2 * HASH_SIZE + NOTE_SIZE - 8),
          offset |-> BSub(slice, 2 * HASH_SIZE + NOTE_SIZE - 7, 2 * HASH_SIZE + NOTE_SIZE)]

\* ProofDeserialize::offset: the last 4 of the 8 offset bytes, big-endian
offset(record) == from_be_bytes(BSub(record.offset, 5, 8))

\* slice.chunks(size) over a byte string
RECURSIVE ByteChunks(_, _)
ByteChunks(s, size) ==
    IF s = <<>> THEN <<>>
    ELSE <<BTake(s, size)>> \o ByteChunks(BDrop(s, size), size)

\* validate_chunk lines 237-254: match the chunk, split the proof buffer and
\* deserialize its records.  "panic" is an abort: unreachable!(), the
\* subtraction or split_at on a buffer shorter than a leaf record, or the
\* unwrap of a branch record that failed to parse.
DeserializeProof(chunk, proof) ==
    IF IsNone(chunk.data_hash) THEN [outcome |-> "panic"]
    ELSE IF BLen(proof.proof) < HASH_SIZE + NOTE_SIZE THEN [outcome |-> "panic"]
    ELSE LET mid == BLen(proof.proof) - HASH_SIZE - NOTE_SIZE
             branches == BTake(proof.proof, mid)
             leaf == BDrop(proof.proof, mid)
             slices == ByteChunks(branches, HASH_SIZE * 2 + NOTE_SIZE)
             parsed == [i \in 1..Len(slices) |-> BranchProof_try_from_proof_slice(slices[i])]
             leaf_proof == LeafProof_try_from_proof_slice(leaf)
         IN  IF \E i \in 1..Len(parsed) : parsed[i].outcome # "Ok"
             THEN [outcome |-> "panic"]
             ELSE IF leaf_proof.outcome # "Ok"
             THEN [outcome |-> "InvalidProof"]
             ELSE [outcome |-> "Ok", branch_proofs |-> parsed, leaf_proof |-> leaf_proof]

\* lines 259-266: the id a branch record hashes to
BranchRecordId(branch_proof, context) ==
    hash_all_sha256(<<branch_proof.left_id, branch_proof.right_id,
                      to_note_vec(offset(branch_proof))>>, context)

\* NextExpectedId descending right also when max_byte_range = offset
NextExpectedId_ge(max_byte_range, branch_proof) ==
    IF U32Less(offset(branch_proof), max_byte_range + 1)
    THEN branch_proof.right_id ELSE branch_proof.left_id

\* lines 275-278: the id expected of the next record
NextExpectedId(max_byte_range, branch_proof) ==
    IF U32Less(offset(branch_proof), max_byte_range)
    THEN branch_proof.right_id ELSE branch_proof.left_id

\* lines 282-285: the id of the chunk itself
ChunkId(chunk, context) ==
    hash_all_sha256(<<Unwrap(chunk.data_hash),
                      to_note_vec(AsU32(chunk.max_byte_range))>>, context)

\* LeafCheckFails failing when either comparison fails
LeafCheckFails_either(id, expected_id, data_hash, leaf_proof) ==
    ~(id = expected_id) \/ ~(data_hash = leaf_proof.data_hash)

\* line 286: the condition under which the leaf step fails
LeafCheckFails(id, expected_id, data_hash, leaf_proof) ==
    ~(id = expected_id) /\ ~(data_hash = leaf_proof.data_hash)


\* ---- inputs ----
Remainders ==
    (0..Near) \cup ((MIN_CHUNK_SIZE - Near)..(MIN_CHUNK_SIZE + Near))
              \cup ((MAX_CHUNK_SIZE - Near)..(MAX_CHUNK_SIZE - 1))

\* ---- transactions (transaction.rs) and the deep hash ----
SHA384_SIZE == 48

\* ring SHA384 as a collision-free function of the bytes fed to it; a run of
\* kind "hs" is bytes of the SHA-384 digest of the message t
Sha384Digest(input) == <<Run("hs", input, 0, 0, SHA384_SIZE)>>

\* hash_sha384: a fresh context, update(message), finish()
hash_sha384(message) == Sha384Digest(Norm(message))

hash_all_sha384(messages) ==
    hash_sha384(ConcatAll([i \in 1..Len(messages) |-> hash_sha384(messages[i])]))

concat_u8_48(left, right) == Cat(left, right)

\* the bytes of an ASCII string given by its character codes
Ascii(codes) == ConcatAll([i \in 1..Len(codes) |-> Lit(codes[i])])

\* u64 / u8 / usize to_string and format!("{}", n): the decimal digits,
\* most significant first
RECURSIVE to_string(_)
to_string(n) ==
    IF n < 10 THEN Lit(48 + n) ELSE Cat(to_string(n \div 10), Lit(48 + (n % 10)))

\* enum DeepHashItem { Blob(Vec<u8>), List(Vec<DeepHashItem>) }
Blob(b) == [tag |-> "Blob", blob |-> b, list |-> <<>>]
List(children) == [tag |-> "List", blob |-> <<>>, list |-> children]

\* deep_hash giving a list of one child the hash of that child
RECURSIVE deep_hash_flat(_)
deep_hash_flat(deep_hash_item) ==
    IF deep_hash_item.tag = "Blob"
    THEN LET blob == deep_hash_item.blob
             blob_tag == Cat(Ascii(<<98, 108, 111, 98>>), to_string(BLen(blob)))
         IN  hash_all_sha384(<<blob_tag, blob>>)
    ELSE LET list == deep_hash_item.list
             list_tag == Cat(Ascii(<<108, 105, 115, 116>>), to_string(Len(list)))
             hash[i \in 0..Len(list)] ==
                 IF i = 0 THEN hash_sha384(list_tag)
                 ELSE hash_sha384(concat_u8_48(hash[i - 1], deep_hash_flat(list[i])))
         IN  IF Len(list) = 1 THEN deep_hash_flat(list[1]) ELSE hash[Len(list)]

\* merkle.rs deep_hash: "blob" ++ len and the blob hashed together; for a
\* list, the hash of "list" ++ len folded with the hash of each child
RECURSIVE deep_hash(_)
deep_hash(deep_hash_item) ==
    IF deep_hash_item.tag = "Blob"
    THEN LET blob == deep_hash_item.blob
             blob_tag == Cat(Ascii(<<98, 108, 111, 98>>), to_string(BLen(blob)))
         IN  hash_all_sha384(<<blob_tag, blob>>)
    ELSE LET list == deep_hash_item.list
             list_tag == Cat(Ascii(<<108, 105, 115, 116>>), to_string(Len(list)))
             hash[i \in 0..Len(list)] ==
                 IF i = 0 THEN hash_sha384(list_tag)
                 ELSE hash_sha384(concat_u8_48(hash[i - 1], deep_hash(list[i])))
         IN  hash[Len(list)]

\* crypto.rs Provider: the same primitives as methods of the key holder; the
\* key pair is not read by any of them
Provider_hash_sha384(message) == Sha384Digest(Norm(message))

Provider_hash_all_sha384(messages) ==
    Provider_hash_sha384(
        ConcatAll([i \in 1..Len(messages) |-> Provider_hash_sha384(messages[i])]))

Provider_concat_u8_48(left, right) == Cat(left, right)

\* Provider_deep_hash folding each child's hash before the running hash
RECURSIVE Provider_deep_hash_childfirst(_)
Provider_deep_hash_childfirst(deep_hash_item) ==
    IF deep_hash_item.tag = "Blob"
    THEN LET blob == deep_hash_item.blob
             blob_tag == Cat(Ascii(<<98, 108, 111, 98>>), to_string(BLen(blob)))
         IN  Provider_hash_all_sha384(<<blob_tag, blob>>)
    ELSE LET list == deep_hash_item.list
             list_tag == Cat(Ascii(<<108, 105, 115, 116>>), to_string(Len(list)))
             hash[i \in 0..Len(list)] ==
                 IF i = 0 THEN Provider_hash_sha384(list_tag)
                 ELSE Provider_hash_sha384(
                          Provider_concat_u8_48(Provider_deep_hash_childfirst(list[i]),
                                                hash[i - 1]))
         IN  hash[Len(list)]

\* crypto.rs Provider::deep_hash
RECURSIVE Provider_deep_hash(_)
Provider_deep_hash(deep_hash_item) ==
    IF deep_hash_item.tag = "Blob"
    THEN LET blob == deep_hash_item.blob
             blob_tag == Cat(Ascii(<<98, 108, 111, 98>>), to_string(BLen(blob)))
         IN  Provider_hash_all_sha384(<<blob_tag, blob>>)
    ELSE LET list == deep_hash_item.list
             list_tag == Cat(Ascii(<<108, 105, 115, 116>>), to_string(Len(list)))
             hash[i \in 0..Len(list)] ==
                 IF i = 0 THEN Provider_hash_sha384(list_tag)
                 ELSE Provider_hash_sha384(
                          Provider_concat_u8_48(hash[i - 1], Provider_deep_hash(list[i])))
         IN  hash[Len(list)]

\* Tag<Base64>::to_deep_hash_item
TagItem(t) == List(<<Blob(t.name), Blob(t.value)>>)

\* Vec<Tag<Base64>>::to_deep_hash_item
TagsItem(tags) ==
    IF Len(tags) > 0
    THEN List([i \in 1..Len(tags) |-> TagItem(tags[i])])
    ELSE Blob(<<>>)

\* to_deep_hash_item with owner and target in each other's place
to_deep_hash_item_swapped(t) ==
    IF t.format = 1
    THEN [panic |-> FALSE,
          item |-> List(<<Blob(t.target), Blob(t.owner), Blob(t.data),
                          Blob(to_string(t.quantity)), Blob(to_string(t.reward)),
                          Blob(t.last_tx), TagsItem(t.tags)>>)]
    ELSE IF t.format = 2
    THEN [panic |-> FALSE,
          item |-> List(<<Blob(to_string(t.format)), Blob(t.target), Blob(t.owner),
                          Blob(to_string(t.quantity)), Blob(to_string(t.reward)),
                          Blob(t.last_tx), TagsItem(t.tags),
                          Blob(to_string(t.data_size)), Blob(t.data_root)>>)]
    ELSE [panic |-> TRUE, item |-> Blob(<<>>)]

\* Transaction::to_deep_hash_item; any format but 1 and 2 is unreachable!()
to_deep_hash_item(t) ==
    IF t.format = 1
    THEN [panic |-> FALSE,
          item |-> List(<<Blob(t.owner), Blob(t.target), Blob(t.data),
                          Blob(to_string(t.quantity)), Blob(to_string(t.reward)),
                          Blob(t.last_tx), TagsItem(t.tags)>>)]
    ELSE IF t.format = 2
    THEN [panic |-> FALSE,
          item |-> List(<<Blob(to_string(t.format)), Blob(t.owner), Blob(t.target),
                          Blob(to_string(t.quantity)), Blob(to_string(t.reward)),
                          Blob(t.last_tx), TagsItem(t.tags),
                          Blob(to_string(t.data_size)), Blob(t.data_root)>>)]
    ELSE [panic |-> TRUE, item |-> Blob(<<>>)]

\* the bytes of the whole input buffer
DataBytes(d) == ChunkBytes(d, [lo |-> 0, hi |-> d.len])

\* data[min..max] of a byte vector, positions counted from 0
Slice(bytes, min, max) == BSub(bytes, min + 1, max)

\* get_chunk with the chunk cut one byte short
get_chunk_short(t, idx) ==
    IF idx >= Len(t.proofs) \/ idx >= Len(t.chunks)
    THEN [panic |-> TRUE, chunk |-> <<>>]
    ELSE [panic |-> FALSE,
          chunk |-> [data_root |-> t.data_root,
                     data_size |-> t.data_size,
                     data_path |-> t.proofs[idx + 1].proof,
                     offset |-> t.proofs[idx + 1].offset,
                     chunk |-> Slice(t.data, t.chunks[idx + 1].min_byte_range,
                                     t.proofs[idx + 1].offset)]]

\* Transaction::get_chunk(idx), idx counted from 0; an index past the end of
\* proofs or chunks panics
get_chunk(t, idx) ==
    IF idx >= Len(t.proofs) \/ idx >= Len(t.chunks)
    THEN [panic |-> TRUE, chunk |-> <<>>]
    ELSE [panic |-> FALSE,
          chunk |-> [data_root |-> t.data_root,
                     data_size |-> t.data_size,
                     data_path |-> t.proofs[idx + 1].proof,
                     offset |-> t.proofs[idx + 1].offset,
                     chunk |-> Slice(t.data, t.chunks[idx + 1].min_byte_range,
                                     t.chunks[idx + 1].max_byte_range)]]

\* ---- the application (store.rs, components/files.rs) ----
\* Transaction::default()
DefaultTransaction ==
    [format |-> 0, id |-> <<>>, last_tx |-> <<>>, owner |-> <<>>, tags |-> <<>>,
     target |-> <<>>, quantity |-> 0, data_root |-> <<>>, data |-> <<>>,
     data_size |-> 0, reward |-> 0, signature |-> <<>>,
     chunks |-> <<>>, proofs |-> <<>>]

\* generate_data_root: build_layer until one node is left, then pop it
RECURSIVE generate_data_root(_)
generate_data_root(layer) ==
    IF Len(layer) > 1 THEN generate_data_root(build_layer(layer, Sha256Default))
    ELSE IF Len(layer) = 0 THEN [panic |-> TRUE, root |-> None]
    ELSE [panic |-> FALSE, root |-> Some(layer[Len(layer)])]

\* merklize(data) as one call; a panic of any of its steps is a panic of the
\* call
merklize(d, overflow_checks) ==
    LET l == generate_leaves(d)
        r == generate_data_root(l.leaves)
        p == resolve_proofs(Unwrap(r.root), None, overflow_checks)
        chunks == l.leaves
        last_chunk == chunks[Len(chunks)]
        pop == last_chunk.max_byte_range = last_chunk.min_byte_range
    IN  IF l.panic THEN [panic |-> TRUE, tx |-> None]
        ELSE IF r.panic THEN [panic |-> TRUE, tx |-> None]
        ELSE IF p.outcome # "Ok" THEN [panic |-> TRUE, tx |-> None]
        ELSE [panic |-> FALSE,
              tx |-> Some([DefaultTransaction EXCEPT
                        !.format = 2,
                        !.data_size = d.len,
                        !.data = DataBytes(d),
                        !.data_root = Unwrap(r.root).id,
                        !.chunks = IF pop THEN SubSeq(chunks, 1, Len(chunks) - 1)
                                   ELSE chunks,
                        !.proofs = IF pop THEN SubSeq(p.proofs, 1, Len(p.proofs) - 1)
                                   ELSE p.proofs])]

\* the effect of FilesSelector calling to_deep_hash_item whatever the format
FilesSelectorEffect_always(trans) ==
    [called |-> TRUE, format |-> trans.format,
     panic |-> to_deep_hash_item(trans).panic]

\* files.rs 28-34: the effect of FilesSelector on the stored Transaction
FilesSelectorEffect(trans) ==
    IF trans.format = 2
    THEN [called |-> TRUE, format |-> trans.format,
          panic |-> to_deep_hash_item(trans).panic]
    ELSE [called |-> FALSE, format |-> trans.format, panic |-> FALSE]

\* the files the user can select: a short one, one of exactly a full chunk,
\* and an empty one
FileNames == <<"a", "b", "c">>

Disk ==
    [n \in {"a", "b", "c"} |->
        [name |-> n,
         buf |-> IF n = "a" THEN [len |-> 1, kind |-> "file"]
                 ELSE IF n = "b" THEN [len |-> MAX_CHUNK_SIZE, kind |-> "zeros"]
                 ELSE [len |-> 0, kind |-> "file"]]]

\* the FileList of a selection, in the order of FileNames
FileListOf(sel) ==
    LET Selected(n) == n \in sel
        names == SelectSeq(FileNames, Selected)
    IN  [i \in 1..Len(names) |-> Disk[names[i]]]

\* the lengths of the input buffers
Lengths ==
    {k * MAX_CHUNK_SIZE + r : k \in 0..MaxFull, r \in Remainders}
        \cup {257 * 1024, 300 * 1024}

\* the input buffers: a length and a kind of content
Buffers == [len : Lengths, kind : {"file", "zeros"}]

\* ---- state ----
VARIABLES
    data,           \* the input buffer
    pc,             \* position in the pipeline
    nodes,          \* generate_data_root: the current layer
    leaves,         \* the result of generate_leaves
    root,           \* Option: the result of generate_data_root
    proofs,         \* the result of resolve_proofs
    call,           \* the arguments of the call in progress
    root_id,        \* validate_chunk: the id expected of the next record
    branch_proofs,  \* validate_chunk: the branch records not yet replayed
    leaf_proof,     \* validate_chunk: the parsed leaf record
    steps,          \* validate_chunk: records replayed so far
    result,         \* outcome of the last call: none, Ok, InvalidProof, panic
    tx,             \* Option: the Transaction built by merklize
    out,            \* the value returned by the last call on a Transaction
    files,          \* store: Signal<Files>, name -> File
    files_vec,      \* store: Signal<FilesVec>, the (name, size) rows shown
    store,          \* store: Signal<Transaction>
    tasks,          \* the tasks spawned by handle_click that have not finished
    clicks,         \* the number of Merklize clicks handled so far
    done,           \* the tasks that finished, in the order they finished
    effect,         \* the last run of the effect of FilesSelector
    halted          \* the wasm instance was left unusable by a panic

appvars == <<files, files_vec, store, tasks, clicks, done, effect, halted>>

pvars == <<data, pc, nodes, leaves, root, proofs, call, root_id,
           branch_proofs, leaf_proof, steps, result, tx, out>>

vars == <<data, pc, nodes, leaves, root, proofs, call, root_id,
          branch_proofs, leaf_proof, steps, result, tx, out,
          files, files_vec, store, tasks, clicks, done, effect, halted>>

NoCall == [op |-> "none", src |-> "none"]

\* initialize_store and the first run of the effect, which create_effect
\* makes at once
AppStart ==
    /\ files = <<>>
    /\ files_vec = <<>>
    /\ store = DefaultTransaction
    /\ tasks = {}
    /\ clicks = 0
    /\ done = <<>>
    /\ effect = FilesSelectorEffect(DefaultTransaction)
    /\ halted = FALSE

Init ==
    /\ data \in Buffers
    /\ pc = "start"
    /\ nodes = <<>>
    /\ leaves = <<>>
    /\ root = None
    /\ proofs = <<>>
    /\ call = NoCall
    /\ root_id = <<>>
    /\ branch_proofs = <<>>
    /\ leaf_proof = <<>>
    /\ steps = 0
    /\ result = "none"
    /\ tx = None
    /\ out = <<>>
    /\ AppStart

\* generate_leaves(data); an abort ends the run
GenerateLeaves ==
    /\ pc = "start"
    /\ LET r == generate_leaves(data)
       IN  /\ leaves' = r.leaves
           /\ nodes' = r.leaves
           /\ pc' = IF r.panic THEN "aborted" ELSE "build"
           /\ result' = IF r.panic THEN "panic" ELSE "Ok"
    /\ call' = [op |-> "generate_leaves", src |-> "data"]
    /\ UNCHANGED <<data, root, proofs, root_id, branch_proofs, leaf_proof, steps>>
    /\ UNCHANGED <<tx, out>>
    /\ UNCHANGED appvars

\* generate_data_root: one pass of `while nodes.len() > 1`
BuildLayer ==
    /\ pc = "build"
    /\ Len(nodes) > 1
    /\ nodes' = build_layer(nodes, Sha256Default)
    /\ call' = [op |-> "generate_data_root", src |-> "leaves"]
    /\ UNCHANGED <<data, pc, leaves, root, proofs, root_id, branch_proofs,
                   leaf_proof, steps, result>>
    /\ UNCHANGED <<tx, out>>
    /\ UNCHANGED appvars

\* generate_data_root: `nodes.pop().unwrap()` once the loop has ended
PopRoot ==
    /\ pc = "build"
    /\ Len(nodes) <= 1
    /\ IF Len(nodes) = 0
       THEN /\ pc' = "aborted" /\ result' = "panic" /\ UNCHANGED <<root, nodes>>
       ELSE /\ root' = Some(nodes[Len(nodes)])
            /\ nodes' = SubSeq(nodes, 1, Len(nodes) - 1)
            /\ pc' = "resolve" /\ result' = "Ok"
    /\ call' = [op |-> "generate_data_root", src |-> "leaves"]
    /\ UNCHANGED <<data, leaves, proofs, root_id, branch_proofs, leaf_proof, steps>>
    /\ UNCHANGED <<tx, out>>
    /\ UNCHANGED appvars

\* nodes that are neither a well-formed leaf nor a well-formed branch,
\* made from a well-formed node
MalformedNodes(node) ==
    { n \in { [node EXCEPT !.data_hash = None, !.left_child = None,
                           !.right_child = None],
              [node EXCEPT !.data_hash = Some(node.id)],
              [node EXCEPT !.right_child = None],
              [node EXCEPT !.left_child = Some(node), !.right_child = Some(node)] } :
        ~IsLeafPattern(n) /\ ~IsBranchPattern(n) }

\* resolve_proofs(node, None), on the root that was built or on a malformed
\* node made from it
ResolveProofs ==
    /\ pc = "resolve"
    /\ \E src \in {"root", "malformed"} :
       \E node \in IF src = "root" THEN {Unwrap(root)} ELSE MalformedNodes(Unwrap(root)) :
       \E overflow_checks \in BOOLEAN :
         LET r == resolve_proofs(node, None, overflow_checks)
         IN  /\ call' = [op |-> "resolve_proofs", src |-> src, node |-> node]
             /\ result' = r.outcome
             /\ proofs' = r.proofs
             /\ pc' = IF r.outcome = "Ok" /\ src = "root" THEN "validate" ELSE "aborted"
    /\ UNCHANGED <<data, nodes, leaves, root, root_id, branch_proofs, leaf_proof, steps>>
    /\ UNCHANGED <<tx, out>>
    /\ UNCHANGED appvars


\* ---- callers of validate_chunk ----
\* most bytes appended to a proof buffer by a caller that resizes it
MaxPad == 1

\* the bits a tampering caller inverts: the lowest and the highest of a byte
FlipBits == {0, 7}

Pow2(n) == 2 ^ n

\* one bit of one byte inverted
Xor(v, bit) == IF (v \div Pow2(bit)) % 2 = 1 THEN v - Pow2(bit) ELSE v + Pow2(bit)

FlipBit(byte, bit) ==
    IF byte.k = "lit" THEN [byte EXCEPT !.a = Xor(byte.a, bit)]
                      ELSE [byte EXCEPT !.b = Xor(byte.b, bit)]

FlipAt(bytes, pos, bit) ==
    Norm(BTake(bytes, pos - 1) \o <<FlipBit(ByteAt(bytes, pos), bit)>>
            \o BDrop(bytes, pos))

\* a buffer cut or zero-padded to n bytes
Resize(bytes, n) ==
    IF n <= BLen(bytes) THEN BTake(bytes, n)
    ELSE Cat(bytes, Lits(0, n - BLen(bytes)))

\* a leaf over the byte range of `leaf` whose content is not in the file
ForeignLeaf(leaf) ==
    LeafNode([len |-> data.len, kind |-> "other"],
             [lo |-> leaf.min_byte_range, hi |-> leaf.max_byte_range],
             [min |-> leaf.min_byte_range, max |-> leaf.max_byte_range],
             Sha256Default)

\* the leaf record a prover would write for a chunk
LeafRecord(chunk) ==
    Cat(Unwrap(chunk.data_hash), to_note_vec(AsU32(chunk.max_byte_range)))

\* the branch records of a proof buffer
BranchRegion(bytes) == BTake(bytes, BLen(bytes) - HASH_SIZE - NOTE_SIZE)

Call(src, idx, pos, bit, chunk, bytes) ==
    [op |-> "validate_chunk", src |-> src, idx |-> idx, pos |-> pos, bit |-> bit,
     root_id |-> Unwrap(root).id, chunk |-> chunk,
     proof |-> [offset |-> proofs[idx].offset, proof |-> bytes]]

\* the calls of validate_chunk that the model makes, for the leaf and proof
\* number idx of the tree that was built:
\*   own       the leaf with its own proof
\*   flip      the leaf with its own proof, one bit inverted
\*   resize    the leaf with its own proof cut or padded to pos bytes
\*   foreign   a chunk that is not in the tree, with the proof of leaf idx
\*   forged    a chunk that is not in the tree, with a proof made for it:
\*             its own leaf record after the first pos branch bytes of the
\*             proof of leaf idx
\*   malformed a node that is neither leaf nor branch, with the proof of idx
ValidateCalls ==
    UNION { LET leaf == leaves[idx]
                bytes == proofs[idx].proof
            IN  {Call("own", idx, 0, 0, leaf, bytes)}
                \cup {Call("flip", idx, pos, bit, leaf, FlipAt(bytes, pos, bit)) :
                        pos \in 1..BLen(bytes), bit \in FlipBits}
                \cup {Call("resize", idx, n, 0, leaf, Resize(bytes, n)) :
                        n \in (0..(BLen(bytes) + MaxPad)) \ {BLen(bytes)}}
                \cup {Call("foreign", idx, 0, 0, ForeignLeaf(leaf), bytes) :
                        x \in {y \in {leaf} : y.max_byte_range > y.min_byte_range}}
                \cup {Call("forged", idx, pos, 0, ForeignLeaf(leaf),
                           Cat(BTake(bytes, pos), LeafRecord(ForeignLeaf(leaf)))) :
                        pos \in {p \in {0, BLen(BranchRegion(bytes))} :
                                    leaf.max_byte_range > leaf.min_byte_range}}
                \cup {Call("malformed", idx, 0, 0, n, bytes) :
                        n \in MalformedNodes(leaf)}
          : idx \in 1..Len(leaves) }

\* validate_chunk lines 231-254: entry, split and deserialization
ValidateChunk ==
    /\ pc = "validate"
    /\ \E c \in ValidateCalls :
         LET d == DeserializeProof(c.chunk, c.proof)
         IN  /\ call' = c
             /\ root_id' = c.root_id
             /\ IF d.outcome = "Ok"
                THEN /\ branch_proofs' = d.branch_proofs
                     /\ leaf_proof' = d.leaf_proof
                     /\ pc' = "replay"
                     /\ result' = "none"
                ELSE /\ pc' = "returned"
                     /\ result' = d.outcome
                     /\ UNCHANGED <<branch_proofs, leaf_proof>>
    /\ steps' = 0
    /\ UNCHANGED <<data, nodes, leaves, root, proofs>>
    /\ UNCHANGED <<tx, out>>
    /\ UNCHANGED appvars

\* ValidateBranch noting a mismatch and going on to the next record
ValidateBranch_goon ==
    /\ pc = "replay"
    /\ branch_proofs # <<>>
    /\ LET branch_proof == Head(branch_proofs)
           id == BranchRecordId(branch_proof, Sha256Default)
       IN  /\ result' = IF ~(id = root_id) THEN "InvalidProof" ELSE result
           /\ root_id' = NextExpectedId(call.chunk.max_byte_range, branch_proof)
           /\ branch_proofs' = Tail(branch_proofs)
           /\ UNCHANGED pc
    /\ steps' = steps + 1
    /\ UNCHANGED <<data, nodes, leaves, root, proofs, call, leaf_proof>>
    /\ UNCHANGED <<tx, out>>
    /\ UNCHANGED appvars

\* validate_chunk lines 257-279: one iteration of the loop over the branches
ValidateBranch ==
    /\ pc = "replay"
    /\ branch_proofs # <<>>
    /\ LET branch_proof == Head(branch_proofs)
           id == BranchRecordId(branch_proof, Sha256Default)
       IN  IF ~(id = root_id)
           THEN /\ pc' = "returned"
                /\ result' = "InvalidProof"
                /\ UNCHANGED <<root_id, branch_proofs>>
           ELSE /\ root_id' = NextExpectedId(call.chunk.max_byte_range, branch_proof)
                /\ branch_proofs' = Tail(branch_proofs)
                /\ UNCHANGED <<pc, result>>
    /\ steps' = steps + 1
    /\ UNCHANGED <<data, nodes, leaves, root, proofs, call, leaf_proof>>
    /\ UNCHANGED <<tx, out>>
    /\ UNCHANGED appvars

\* validate_chunk lines 281-294: the leaf step
ValidateLeaf ==
    /\ pc = "replay"
    /\ branch_proofs = <<>>
    /\ LET data_hash == Unwrap(call.chunk.data_hash)
           id == ChunkId(call.chunk, Sha256Default)
       IN  result' = IF LeafCheckFails(id, root_id, data_hash, leaf_proof)
                     THEN "InvalidProof" ELSE "Ok"
    /\ pc' = "returned"
    /\ steps' = steps + 1
    /\ UNCHANGED <<data, nodes, leaves, root, proofs, call, root_id,
                   branch_proofs, leaf_proof>>
    /\ UNCHANGED <<tx, out>>
    /\ UNCHANGED appvars

\* Merklize keeping a zero-length last chunk and its proof
Merklize_nopop ==
    /\ pc = "validate"
    /\ tx' = Some([format |-> 2,
                   id |-> <<>>,
                   last_tx |-> <<>>,
                   owner |-> <<>>,
                   tags |-> <<>>,
                   target |-> <<>>,
                   quantity |-> 0,
                   data_root |-> Unwrap(root).id,
                   data |-> DataBytes(data),
                   data_size |-> data.len,
                   reward |-> 0,
                   signature |-> <<>>,
                   chunks |-> leaves,
                   proofs |-> proofs])
    /\ pc' = "merklized"
    /\ result' = "Ok"
    /\ call' = [op |-> "merklize", src |-> "data"]
    /\ UNCHANGED <<data, nodes, leaves, root, proofs, root_id, branch_proofs,
                   leaf_proof, steps, out>>
    /\ UNCHANGED appvars

\* merklize lines 296-311, after generate_leaves, generate_data_root and
\* resolve_proofs: drop a zero-length last chunk with its proof and build the
\* Transaction, every other field at its Default
Merklize ==
    /\ pc = "validate"
    /\ LET last_chunk == leaves[Len(leaves)]
           pop == last_chunk.max_byte_range = last_chunk.min_byte_range
       IN  tx' = Some([format |-> 2,
                       id |-> <<>>,
                       last_tx |-> <<>>,
                       owner |-> <<>>,
                       tags |-> <<>>,
                       target |-> <<>>,
                       quantity |-> 0,
                       data_root |-> Unwrap(root).id,
                       data |-> DataBytes(data),
                       data_size |-> data.len,
                       reward |-> 0,
                       signature |-> <<>>,
                       chunks |-> IF pop THEN SubSeq(leaves, 1, Len(leaves) - 1)
                                  ELSE leaves,
                       proofs |-> IF pop THEN SubSeq(proofs, 1, Len(proofs) - 1)
                                  ELSE proofs])
    /\ pc' = "merklized"
    /\ result' = "Ok"
    /\ call' = [op |-> "merklize", src |-> "data"]
    /\ UNCHANGED <<data, nodes, leaves, root, proofs, root_id, branch_proofs,
                   leaf_proof, steps, out>>
    /\ UNCHANGED appvars

\* get_chunk(idx) on the Transaction of merklize
GetChunk ==
    /\ pc = "merklized"
    /\ \E idx \in 0..Len(Unwrap(tx).chunks) :
         LET r == get_chunk(Unwrap(tx), idx)
         IN  /\ call' = [op |-> "get_chunk", src |-> "tx", idx |-> idx]
             /\ out' = r.chunk
             /\ result' = IF r.panic THEN "panic" ELSE "Ok"
    /\ pc' = "chunk"
    /\ UNCHANGED <<data, nodes, leaves, root, proofs, root_id, branch_proofs,
                   leaf_proof, steps, tx>>
    /\ UNCHANGED appvars

\* bytes that are not in the file: an address or an anchor
Address(n) == <<Run("other", <<>>, 1000 * n, 0, 32)>>

\* tag lists of 0, 1 and 2 tags
TagLists ==
    LET t1 == [name |-> Ascii(<<65, 112, 112>>), value |-> Ascii(<<49>>)]
        t2 == [name |-> Ascii(<<84>>), value |-> <<>>]
    IN  {<<>>, <<t1>>, <<t1, t2>>, <<t2, t1>>}

\* the transactions handed to to_deep_hash_item: the one merklize built, and
\* the same with the fields a wallet fills in, in each format
TxInputs ==
    {Unwrap(tx)} \cup
    { [Unwrap(tx) EXCEPT !.format = f, !.owner = Address(1), !.target = Address(2),
                         !.last_tx = Address(3), !.quantity = q, !.reward = 4096,
                         !.tags = tags]
        : f \in 0..3, q \in {0, 120}, tags \in TagLists }

\* to_deep_hash_item on a Transaction
ToDeepHashItem ==
    /\ pc = "merklized"
    /\ \E t \in TxInputs :
         LET r == to_deep_hash_item(t)
         IN  /\ call' = [op |-> "to_deep_hash_item", src |-> "tx", tx |-> t]
             /\ out' = r.item
             /\ result' = IF r.panic THEN "panic" ELSE "Ok"
             /\ pc' = IF r.panic THEN "aborted" ELSE "item"
    /\ UNCHANGED <<data, nodes, leaves, root, proofs, root_id, branch_proofs,
                   leaf_proof, steps, tx>>
    /\ UNCHANGED appvars

\* the items handed to deep_hash: the one of the transaction, its children,
\* and the list of one such child
DeepHashInputs ==
    {out} \cup {out.list[i] : i \in 1..Len(out.list)}
          \cup {List(<<out.list[i]>>) : i \in 1..Len(out.list)}

\* deep_hash on a DeepHashItem
DeepHash ==
    /\ pc = "item"
    /\ \E item \in DeepHashInputs :
         /\ call' = [op |-> "deep_hash", src |-> "item", item |-> item]
         /\ out' = deep_hash(item)
    /\ result' = "Ok"
    /\ pc' = "hashed"
    /\ UNCHANGED <<data, nodes, leaves, root, proofs, root_id, branch_proofs,
                   leaf_proof, steps, tx>>
    /\ UNCHANGED appvars

\* Provider::deep_hash on a DeepHashItem
ProviderDeepHash ==
    /\ pc = "item"
    /\ \E item \in DeepHashInputs :
         /\ call' = [op |-> "Provider::deep_hash", src |-> "item", item |-> item]
         /\ out' = Provider_deep_hash(item)
    /\ result' = "Ok"
    /\ pc' = "hashed"
    /\ UNCHANGED <<data, nodes, leaves, root, proofs, root_id, branch_proofs,
                   leaf_proof, steps, tx>>
    /\ UNCHANGED appvars

Next ==
    \/ GenerateLeaves
    \/ BuildLayer
    \/ PopRoot
    \/ ResolveProofs
    \/ ValidateChunk
    \/ ValidateBranch
    \/ ValidateLeaf
    \/ Merklize
    \/ GetChunk
    \/ ToDeepHashItem
    \/ DeepHash
    \/ ProviderDeepHash

Spec == Init /\ [][Next]_vars

\* generate_leaves and generate_data_root alone, run to their end: the loop
\* of generate_data_root is not left half done
NextRoot ==
    \/ GenerateLeaves
    \/ BuildLayer
    \/ PopRoot

\* ENABLED <<BuildLayer>>_vars, written out
BuildLayerEnabled ==
    /\ pc = "build"
    /\ Len(nodes) > 1
    /\ \/ build_layer(nodes, Sha256Default) # nodes
       \/ call # [op |-> "generate_data_root", src |-> "leaves"]

\* weak fairness of BuildLayer, with its enabling condition written out
BuildLayerFair == []<>(~BuildLayerEnabled) \/ []<><<BuildLayer>>_vars

RootSpec == Init /\ [][NextRoot]_vars /\ BuildLayerFair /\ WF_vars(PopRoot)


\* ---- the application ----
MaxClicks == 3

\* reducer, Action::FilesSet(file_list): files_vec, then files
FilesSet ==
    /\ ~halted
    /\ \E sel \in SUBSET {"a", "b", "c"} :
         LET new_files_vec == FileListOf(sel)
         IN  /\ files_vec' = [i \in 1..Len(new_files_vec) |->
                                <<new_files_vec[i].name, new_files_vec[i].buf.len>>]
             /\ files' = [n \in sel |-> Disk[n]]
    /\ UNCHANGED <<store, tasks, clicks, done, effect, halted>>
    /\ UNCHANGED pvars

\* handle_click(name) on the Merklize button of a row: spawn a task holding a
\* clone of the file
handle_click ==
    /\ ~halted
    /\ clicks < MaxClicks
    /\ \E i \in 1..Len(files_vec) :
         LET name == files_vec[i][1]
             file == files[name]
         IN  tasks' = tasks \cup {[id |-> clicks + 1, name |-> name, file |-> file]}
    /\ clicks' = clicks + 1
    /\ UNCHANGED <<files, files_vec, store, done, effect, halted>>
    /\ UNCHANGED pvars

\* a spawned task after its read has resolved: merklize, then
\* reducer(TransactionSet(tx)), which sets the signal and so runs the effect;
\* a panic ends the task, and leaves the instance usable or not
TaskDone ==
    /\ ~halted
    /\ \E t \in tasks :
       \E overflow_checks \in BOOLEAN :
         LET r == merklize(t.file.buf, overflow_checks)
         IN  /\ tasks' = tasks \ {t}
             /\ IF r.panic
                THEN /\ done' = Append(done, [id |-> t.id, name |-> t.name, sets |-> 0])
                     /\ halted' \in BOOLEAN
                     /\ UNCHANGED <<store, effect>>
                ELSE /\ store' = Unwrap(r.tx)
                     /\ effect' = FilesSelectorEffect(Unwrap(r.tx))
                     /\ done' = Append(done, [id |-> t.id, name |-> t.name, sets |-> 1])
                     /\ halted' = FilesSelectorEffect(Unwrap(r.tx)).panic
    /\ UNCHANGED <<files, files_vec, clicks>>
    /\ UNCHANGED pvars

AppNext ==
    \/ FilesSet
    \/ handle_click
    \/ TaskDone

\* the application alone: the buffers come from the selected files
AppInit == Init /\ data = [len |-> 0, kind |-> "zeros"]

AppSpec == AppInit /\ [][AppNext]_vars

\* ---- properties ----
GenerateLeavesDone == pc # "start"
Returned == pc = "returned" /\ call.op = "validate_chunk"
LeafLens == [i \in 1..Len(leaves) |-> leaves[i].max_byte_range - leaves[i].min_byte_range]
IsPositive(x) == x > 0
ProofLen == BLen(call.proof.proof)
WellSized(n) ==
    n >= HASH_SIZE + NOTE_SIZE
        /\ (n - HASH_SIZE - NOTE_SIZE) % (2 * HASH_SIZE + NOTE_SIZE) = 0

C2_OnlyMembersAccepted ==
    (Returned /\ result = "Ok") =>
        \E i \in 1..Len(leaves) :
            /\ leaves[i].data_hash = call.chunk.data_hash
            /\ leaves[i].max_byte_range = call.chunk.max_byte_range

\* C3: inverting any single bit of a valid proof buffer makes validate_chunk
\* fail.
C3_TamperFails ==
    (Returned /\ call.src = "flip") => result # "Ok"

\* C4: validate_chunk succeeds only if, at the leaf step, the recomputed
\* leaf id equals the expected id and the leaf record's data_hash equals the
\* node's data_hash.
C4_LeafStepNeedsBoth ==
    (Returned /\ result = "Ok") =>
        /\ ChunkId(call.chunk, Sha256Default) = root_id
        /\ Unwrap(call.chunk.data_hash) = leaf_proof.data_hash

\* C5: for every length L >= 0 the leaves of generate_leaves are ranges in
\* order, from 0 to L without gap, none longer than MAX_CHUNK_SIZE.
C5_Partition ==
    GenerateLeavesDone =>
        /\ Len(leaves) >= 1
        /\ leaves[1].min_byte_range = 0
        /\ leaves[Len(leaves)].max_byte_range = data.len
        /\ \A i \in 1..Len(leaves) :
            /\ leaves[i].min_byte_range <= leaves[i].max_byte_range
            /\ leaves[i].max_byte_range - leaves[i].min_byte_range <= MAX_CHUNK_SIZE
            /\ i > 1 => leaves[i].min_byte_range = leaves[i - 1].max_byte_range

\* C6: for the empty buffer generate_leaves returns the one leaf [0,0), the
\* root is that leaf with id tagged_hash([SHA256(""), note(0)]), and nothing
\* aborts.
C6_EmptyBuffer ==
    (data.len = 0 /\ GenerateLeavesDone) =>
        /\ result # "panic"
        /\ Len(leaves) = 1
        /\ leaves[1].min_byte_range = 0 /\ leaves[1].max_byte_range = 0
        /\ leaves[1].id = hash_all_sha256(<<hash_sha256(<<>>, Sha256Default),
                                            to_note_vec(AsU32(0))>>, Sha256Default)
        /\ IsSome(root) => Unwrap(root).id = leaves[1].id

\* the greedy split of L bytes: full chunks, then the remainder
GreedyLens(L) ==
    [i \in 1..(L \div MAX_CHUNK_SIZE) |-> MAX_CHUNK_SIZE]
        \o (IF L % MAX_CHUNK_SIZE > 0 THEN <<L % MAX_CHUNK_SIZE>> ELSE <<>>)

\* the split the resplit rule asks for
ExpectedLens(L) ==
    LET g == GreedyLens(L)
        n == Len(g)
    IN  IF n > 1 /\ g[n] < MIN_CHUNK_SIZE
        THEN SubSeq(g, 1, n - 2)
                \o << (g[n - 1] + g[n] + 1) \div 2, (g[n - 1] + g[n]) \div 2 >>
        ELSE g

\* C7: the last two greedy chunks are replaced by chunks of ceil(n/2) and
\* floor(n/2) bytes exactly when the greedy split has more than one chunk
\* and its last chunk is shorter than MIN_CHUNK_SIZE; otherwise the greedy
\* chunks are kept.
C7_Resplit ==
    GenerateLeavesDone => SelectSeq(LeafLens, IsPositive) = ExpectedLens(data.len)

\* a resplit of an odd number of bytes
C7_Witness ==
    /\ GenerateLeavesDone
    /\ data.len = MAX_CHUNK_SIZE + 1
    /\ LeafLens = <<131073, 131072>>

\* C8: a positive multiple L of MAX_CHUNK_SIZE gives L / MAX_CHUNK_SIZE + 1
\* leaves, the last one the zero-length range [L, L); any other L > 0 gives
\* no zero-length leaf.
C8_TrailingLeaf ==
    (GenerateLeavesDone /\ data.len > 0) =>
        IF data.len % MAX_CHUNK_SIZE = 0
        THEN /\ Len(leaves) = data.len \div MAX_CHUNK_SIZE + 1
             /\ leaves[Len(leaves)].min_byte_range = data.len
             /\ leaves[Len(leaves)].max_byte_range = data.len
        ELSE \A i \in 1..Len(leaves) :
                leaves[i].max_byte_range > leaves[i].min_byte_range

\* two full chunks and the trailing leaf
C8_Witness ==
    /\ GenerateLeavesDone
    /\ data.len = 2 * MAX_CHUNK_SIZE
    /\ LeafLens = <<MAX_CHUNK_SIZE, MAX_CHUNK_SIZE, 0>>

\* C9: a proof buffer whose length is not 64 + 96 * k makes validate_chunk
\* return Error::InvalidProof to its caller.
C9_BadLengthIsError ==
    (Returned /\ call.src = "resize" /\ ~WellSized(ProofLen)) => result = "InvalidProof"

\* C10: resolve_proofs and validate_chunk return an error value for a node
\* that is neither a well-formed leaf nor a well-formed branch.
C10_MalformedIsError ==
    (pc \in {"returned", "aborted"} /\ call.src = "malformed") =>
        result \notin {"Ok", "panic"}


\* ---- the tree, as the properties see it ----
RECURSIVE LeafCount(_)
LeafCount(node) ==
    IF IsNone(node.left_child) THEN 1
    ELSE LeafCount(Unwrap(node.left_child)) + LeafCount(Unwrap(node.right_child))

\* the branch nodes above leaf number i of the tree under node, from node down
RECURSIVE Ancestors(_, _)
Ancestors(node, i) ==
    IF IsNone(node.left_child) THEN <<>>
    ELSE LET lc == LeafCount(Unwrap(node.left_child))
         IN  IF i <= lc
             THEN <<node>> \o Ancestors(Unwrap(node.left_child), i)
             ELSE <<node>> \o Ancestors(Unwrap(node.right_child), i - lc)

RECURSIVE NodesOf(_)
NodesOf(node) ==
    {node} \cup (IF IsNone(node.left_child) THEN {}
                 ELSE NodesOf(Unwrap(node.left_child))
                        \cup NodesOf(Unwrap(node.right_child)))

\* resolve_proofs(root, None) has returned its proofs
Resolved == pc \in {"validate", "replay", "returned"}

\* the value of 4 literal bytes read most significant byte first, as the
\* two 16-bit halves of a u32 (the whole value can exceed the integers of
\* the model checker)
BEValue(bs) ==
    [hi |-> ByteAt(bs, 1).a * 256 + ByteAt(bs, 2).a,
     lo |-> ByteAt(bs, 3).a * 256 + ByteAt(bs, 4).a]

\* the two 16-bit halves of a byte offset
Halves(x) == [hi |-> x \div 65536, lo |-> x % 65536]

BRANCH_RECORD == 2 * HASH_SIZE + NOTE_SIZE
LEAF_RECORD == HASH_SIZE + NOTE_SIZE

\* C11: resolve_proofs on the root built from leaves l_1..l_n returns n
\* proofs, the i-th ending in the leaf record of l_i (its data_hash and
\* note(max_byte_range)) with offset = l_i.max_byte_range - 1, so the proofs
\* are in ascending byte-range order.
C11_ProofsInLeafOrder ==
    Resolved =>
        /\ Len(proofs) = Len(leaves)
        /\ \A i \in 1..Len(proofs) :
            /\ proofs[i].offset = leaves[i].max_byte_range - 1
            /\ BDrop(proofs[i].proof, BLen(proofs[i].proof) - LEAF_RECORD)
                  = LeafRecord(leaves[i])
            /\ i > 1 => proofs[i - 1].offset <= proofs[i].offset

\* three proofs for three leaves of distinct ranges
C11_Witness ==
    /\ Resolved
    /\ Len(proofs) = 3
    /\ proofs[1].offset < proofs[2].offset /\ proofs[2].offset < proofs[3].offset

\* C12: the proof of a leaf at depth d is 96 * d + 64 bytes: for each
\* ancestor from the root down a record left_id || right_id || note, then the
\* leaf record data_hash || note; a note is 28 zero bytes and a 4-byte
\* big-endian offset.
C12_ProofLayout ==
    Resolved =>
        \A i \in 1..Len(proofs) :
            LET anc == Ancestors(Unwrap(root), i)
                d == Len(anc)
                bytes == proofs[i].proof
                leafrec == BDrop(bytes, BRANCH_RECORD * d)
            IN  /\ BLen(bytes) = BRANCH_RECORD * d + LEAF_RECORD
                /\ \A k \in 1..d :
                    LET rec == BSub(bytes, BRANCH_RECORD * (k - 1) + 1, BRANCH_RECORD * k)
                    IN  /\ BSub(rec, 1, HASH_SIZE) = Unwrap(anc[k].left_child).id
                        /\ BSub(rec, HASH_SIZE + 1, 2 * HASH_SIZE)
                              = Unwrap(anc[k].right_child).id
                        /\ BSub(rec, 2 * HASH_SIZE + 1, BRANCH_RECORD - 4)
                              = Lits(0, NOTE_SIZE - 4)
                        /\ BEValue(BDrop(rec, BRANCH_RECORD - 4))
                              = Halves(anc[k].min_byte_range)
                /\ BSub(leafrec, 1, HASH_SIZE) = Unwrap(leaves[i].data_hash)
                /\ BSub(leafrec, HASH_SIZE + 1, LEAF_RECORD - 4) = Lits(0, NOTE_SIZE - 4)
                /\ BEValue(BDrop(leafrec, LEAF_RECORD - 4))
                      = Halves(leaves[i].max_byte_range)

\* a proof of a leaf two branches below the root
C12_Witness ==
    /\ Resolved
    /\ \E i \in 1..Len(proofs) :
        /\ Len(Ancestors(Unwrap(root), i)) = 2
        /\ BLen(proofs[i].proof) = 256

\* validate_chunk returned from its leaf step
LeafStepReturned ==
    Returned /\ result \in {"Ok", "InvalidProof"} /\ branch_proofs = <<>>

IdMatches == ChunkId(call.chunk, Sha256Default) = root_id
DataHashMatches == Unwrap(call.chunk.data_hash) = leaf_proof.data_hash

C18_RoutingReachesLeaf ==
    (LeafStepReturned /\ call.src = "own") => root_id = call.chunk.id

\* C18, amended: replaying the own proof of a leaf of non-zero length with
\* the routing rule (right if max_byte_range > offset, else left), from the
\* root id, ends with the expected id equal to the id of that leaf.
C18_RoutingReachesNonEmptyLeaf ==
    (LeafStepReturned /\ call.src = "own"
        /\ call.chunk.max_byte_range > call.chunk.min_byte_range)
    => root_id = call.chunk.id

\* a leaf two branches down, reached through a right turn
C18_Witness ==
    /\ LeafStepReturned /\ call.src = "own"
    /\ call.chunk.max_byte_range > call.chunk.min_byte_range
    /\ call.chunk.min_byte_range > 0
    /\ steps = 3
    /\ root_id = call.chunk.id

\* the branch records of the proof buffer of the call, in buffer order
RecordsOf(c) ==
    LET region == BranchRegion(c.proof.proof)
    IN  [i \in 1..(BLen(region) \div BRANCH_RECORD) |->
            BranchProof_try_from_proof_slice(
                BSub(region, BRANCH_RECORD * (i - 1) + 1, BRANCH_RECORD * i))]

\* C19: validate_chunk starts with the expected id = root_id, replays the
\* branch records in root-to-leaf order, and at the first record whose id
\* differs from the expected id returns the proof-integrity error at once:
\* no later record and no leaf check is evaluated.
C19_FirstMismatchAborts ==
    [][ /\ (pc = "validate" /\ pc' = "replay") =>
            /\ root_id' = call'.root_id
            /\ branch_proofs' = RecordsOf(call')
        /\ (pc = "replay" /\ branch_proofs # <<>>) =>
            IF BranchRecordId(Head(branch_proofs), Sha256Default) # root_id
            THEN /\ pc' = "returned" /\ result' = "InvalidProof"
                 /\ steps' = steps + 1
                 /\ branch_proofs' = branch_proofs /\ root_id' = root_id
            ELSE /\ pc' = "replay" /\ branch_proofs' = Tail(branch_proofs)
        /\ pc # "returned"
      ]_vars

\* a mismatch at the first of two branch records
C19_Witness ==
    /\ Returned /\ result = "InvalidProof"
    /\ steps = 1
    /\ Len(branch_proofs) = 2
    /\ BranchRecordId(branch_proofs[1], Sha256Default) # root_id

IsTrailingLeaf(n) ==
    /\ IsLeafPattern(n)
    /\ n.min_byte_range = data.len /\ n.max_byte_range = data.len

DecValue(bs) ==
    LET v[i \in 0..BLen(bs)] ==
            IF i = 0 THEN 0 ELSE v[i - 1] * 10 + (ByteAt(bs, i).a - 48)
    IN  v[BLen(bs)]

\* item is the blob holding n in decimal digits, without leading zeros
IsDecimalBlob(item, n) ==
    /\ item.tag = "Blob"
    /\ BLen(item.blob) >= 1
    /\ \A i \in 1..BLen(item.blob) :
        ByteAt(item.blob, i).k = "lit" /\ ByteAt(item.blob, i).a \in 48..57
    /\ BLen(item.blob) > 1 => ByteAt(item.blob, 1).a # 48
    /\ DecValue(item.blob) = n

IsBlob(item, bytes) == item.tag = "Blob" /\ item.blob = bytes

IsTagsItem(item, tags) ==
    IF tags = <<>> THEN IsBlob(item, <<>>)
    ELSE /\ item.tag = "List"
         /\ Len(item.list) = Len(tags)
         /\ \A i \in 1..Len(tags) :
             /\ item.list[i].tag = "List"
             /\ Len(item.list[i].list) = 2
             /\ IsBlob(item.list[i].list[1], tags[i].name)
             /\ IsBlob(item.list[i].list[2], tags[i].value)

\* C13: for the Transaction of merklize and idx < chunks.len(), get_chunk(idx)
\* returns the data_root and data_size of the transaction, data_path and
\* offset of proofs[idx], and chunk = data[min_byte_range..max_byte_range] of
\* chunks[idx]; the chunks of idx = 0..chunks.len()-1 concatenated are the
\* original buffer.
C13_GetChunk ==
    /\ (pc = "chunk" /\ call.idx < Len(Unwrap(tx).chunks)) =>
        /\ result = "Ok"
        /\ out.data_root = Unwrap(root).id
        /\ out.data_size = data.len
        /\ out.data_path = proofs[call.idx + 1].proof
        /\ out.offset = proofs[call.idx + 1].offset
        /\ out.chunk = ChunkBytes(data, [lo |-> leaves[call.idx + 1].min_byte_range,
                                         hi |-> leaves[call.idx + 1].max_byte_range])
    /\ IsSome(tx) =>
        LET t == Unwrap(tx)
        IN  ConcatAll([i \in 1..Len(t.chunks) |-> get_chunk(t, i - 1).chunk.chunk])
                = DataBytes(data)

\* the last chunk of a transaction whose trailing zero-length chunk was dropped
C13_Witness ==
    /\ pc = "chunk" /\ result = "Ok"
    /\ Len(leaves) = Len(Unwrap(tx).chunks) + 1
    /\ call.idx = 1 /\ Len(Unwrap(tx).chunks) = 2
    /\ BLen(out.chunk) = MAX_CHUNK_SIZE

\* C14: to_deep_hash_item gives List[owner, target, data, quantity, reward,
\* last_tx, tags] for format 1 and List[format, owner, target, quantity,
\* reward, last_tx, tags, data_size, data_root] for format 2, in that order;
\* numbers are blobs of decimal digits; tags is Blob(empty) without tags and
\* else the list of List[Blob(name), Blob(value)] in tag order.
C14_DeepHashItemOrder ==
    (pc = "item") =>
        LET t == call.tx
            c == out.list
        IN  /\ out.tag = "List"
            /\ t.format \in {1, 2}
            /\ t.format = 1 =>
                /\ Len(c) = 7
                /\ IsBlob(c[1], t.owner)
                /\ IsBlob(c[2], t.target)
                /\ IsBlob(c[3], t.data)
                /\ IsDecimalBlob(c[4], t.quantity)
                /\ IsDecimalBlob(c[5], t.reward)
                /\ IsBlob(c[6], t.last_tx)
                /\ IsTagsItem(c[7], t.tags)
            /\ t.format = 2 =>
                /\ Len(c) = 9
                /\ IsDecimalBlob(c[1], t.format)
                /\ IsBlob(c[2], t.owner)
                /\ IsBlob(c[3], t.target)
                /\ IsDecimalBlob(c[4], t.quantity)
                /\ IsDecimalBlob(c[5], t.reward)
                /\ IsBlob(c[6], t.last_tx)
                /\ IsTagsItem(c[7], t.tags)
                /\ IsDecimalBlob(c[8], t.data_size)
                /\ IsBlob(c[9], t.data_root)

\* a format-2 transaction with owner, target, a quantity of three digits and
\* two tags
C14_Witness ==
    /\ pc = "item"
    /\ call.tx.format = 2
    /\ call.tx.owner # call.tx.target
    /\ call.tx.quantity = 120
    /\ Len(call.tx.tags) = 2
    /\ call.tx.data_size >= MAX_CHUNK_SIZE
    /\ Len(out.list) = 9

\* C15: for every byte string b, deep_hash(Blob(b)) differs from
\* deep_hash(List([Blob(b)])).
C15_DomainSeparation ==
    (pc = "hashed") =>
        /\ call.item.tag = "Blob" => out # deep_hash(List(<<call.item>>))
        /\ (call.item.tag = "List" /\ Len(call.item.list) = 1) =>
              out # deep_hash(call.item.list[1])

\* the hash of a blob of 32 bytes
C15_Witness ==
    /\ pc = "hashed"
    /\ call.item.tag = "Blob"
    /\ BLen(call.item.blob) = HASH_SIZE
    /\ BLen(out) = SHA384_SIZE

\* ---- the layers of the tree ----
\* the leaves under a node, read left to right
RECURSIVE LeavesOf(_)
LeavesOf(node) ==
    IF IsNone(node.left_child) THEN <<node>>
    ELSE LeavesOf(Unwrap(node.left_child)) \o LeavesOf(Unwrap(node.right_child))

\* a pass of build_layer is being made
LayerStep == pc = "build" /\ pc' = "build" /\ nodes' # nodes

\* C21: build_layer over n nodes returns ceil(n/2) nodes, output j being
\* hash_branch(input[2j], input[2j+1]) (counted from 0) for each complete
\* pair; when n is odd the last output is the last input, unchanged.
C21_BuildLayer ==
    [][ LayerStep =>
          LET n == Len(nodes)
          IN  /\ Len(nodes') = (n + 1) \div 2
              /\ \A j \in 1..(n \div 2) :
                  /\ nodes'[j] = hash_branch(nodes[2 * j - 1], nodes[2 * j], Sha256Default)
                  /\ nodes'[j].left_child = Some(nodes[2 * j - 1])
                  /\ nodes'[j].right_child = Some(nodes[2 * j])
              /\ n % 2 = 1 => nodes'[Len(nodes')] = nodes[n]
      ]_vars

\* the layer above three leaves: one branch and the third leaf as it was
C21_Witness ==
    /\ pc = "build"
    /\ Len(leaves) = 3 /\ Len(nodes) = 2
    /\ IsBranchPattern(nodes[1])
    /\ nodes[2] = leaves[3]

\* C22: generate_data_root terminates on a non-empty sequence of leaves: a
\* pass over more than one node leaves fewer nodes (and at least one), the
\* loop ends, and the result is one root whose leaves read left to right are
\* the input leaves in their order.
C22_DataRootTerminates ==
    /\ [][LayerStep => (Len(nodes') < Len(nodes) /\ Len(nodes') >= 1)]_vars
    /\ [](pc = "resolve" =>
            (IsSome(root) /\ nodes = <<>> /\ LeavesOf(Unwrap(root)) = leaves))
    /\ (pc = "build") ~> (pc = "resolve")

\* a root over three leaves, built in two passes
C22_Witness ==
    /\ pc = "resolve"
    /\ Len(leaves) = 3
    /\ LeavesOf(Unwrap(root)) = leaves
    /\ IsBranchPattern(Unwrap(Unwrap(root).left_child))

\* C23: for a non-empty buffer the Transaction of merklize has format 2,
\* data_size = the buffer length, as many chunks as proofs, only chunks of
\* non-zero length that partition [0, data_size) in order, and as data_root
\* the id of the root over all generated leaves, a dropped trailing
\* zero-length leaf included.
C23_MerklizeInvariants ==
    IsSome(tx) =>
        LET t == Unwrap(tx)
            n == Len(t.chunks)
        IN  /\ data.len > 0
            /\ t.format = 2
            /\ t.data_size = data.len
            /\ n = Len(t.proofs)
            /\ n >= 1
            /\ t.chunks[1].min_byte_range = 0
            /\ t.chunks[n].max_byte_range = t.data_size
            /\ \A i \in 1..n :
                /\ t.chunks[i].max_byte_range > t.chunks[i].min_byte_range
                /\ i > 1 => t.chunks[i].min_byte_range = t.chunks[i - 1].max_byte_range
            /\ t.data_root = Unwrap(root).id
            /\ LeavesOf(Unwrap(root)) = leaves
            /\ t.chunks = SubSeq(leaves, 1, n)
            /\ Len(leaves) > n =>
                /\ Len(leaves) = n + 1
                /\ leaves[n + 1].max_byte_range = leaves[n + 1].min_byte_range

\* a transaction whose root covers a leaf that is not among its chunks
C23_Witness ==
    /\ IsSome(tx)
    /\ data.len = MAX_CHUNK_SIZE
    /\ Len(Unwrap(tx).chunks) = 1 /\ Len(Unwrap(tx).proofs) = 1
    /\ Len(LeavesOf(Unwrap(root))) = 2
    /\ Unwrap(tx).data_root # leaves[1].id

\* C24: for a buffer longer than MAX_CHUNK_SIZE every leaf of non-zero
\* length that generate_leaves returns is at least MIN_CHUNK_SIZE long.
C24_MinChunkSize ==
    (GenerateLeavesDone /\ data.len > MAX_CHUNK_SIZE) =>
        \A i \in 1..Len(leaves) :
            LeafLens[i] = 0 \/ LeafLens[i] >= MIN_CHUNK_SIZE

\* a buffer one byte longer than a chunk, split into two halves
C24_Witness ==
    /\ GenerateLeavesDone
    /\ data.len = 2 * MAX_CHUNK_SIZE + 1
    /\ Len(leaves) = 3
    /\ LeafLens[3] >= MIN_CHUNK_SIZE /\ LeafLens[3] < MAX_CHUNK_SIZE

\* the depth of nesting of an item: 0 for a blob
RECURSIVE Nesting(_)
Nesting(item) ==
    IF item.tag = "Blob" THEN 0
    ELSE LET d[i \in 0..Len(item.list)] ==
                 IF i = 0 THEN 0
                 ELSE IF Nesting(item.list[i]) > d[i - 1]
                      THEN Nesting(item.list[i]) ELSE d[i - 1]
         IN  1 + d[Len(item.list)]

\* C27: merkle::deep_hash and crypto::Provider::deep_hash return the same
\* 48-byte digest for every DeepHashItem, blob or nested list.
C27_DeepHashEquivalent ==
    (pc = "hashed") =>
        /\ BLen(out) = SHA384_SIZE
        /\ out = deep_hash(call.item)
        /\ out = Provider_deep_hash(call.item)

\* Provider::deep_hash of a transaction with two tags: lists three deep
C27_Witness ==
    /\ pc = "hashed"
    /\ call.op = "Provider::deep_hash"
    /\ Nesting(call.item) = 3
    /\ Len(call.item.list) = 9
    /\ out = deep_hash(call.item)

\* ---- the application ----
\* C25: the stored Transaction has format 0 or 2, and the effect of
\* FilesSelector calls to_deep_hash_item only when the format is 2, so the
\* unreachable branch of to_deep_hash_item is never executed.
C25_FormatSafe ==
    /\ store.format \in {0, 2}
    /\ effect.format = store.format
    /\ effect.called => effect.format = 2
    /\ ~effect.panic

\* the effect ran on the transaction of the second task to finish
C25_Witness ==
    /\ Len(done) >= 2
    /\ store.format = 2
    /\ effect.called /\ ~effect.panic

\* C26 as stated: every task that finished made one TransactionSet with its
\* complete merklize result, and once no task is in flight the stored
\* Transaction is the result of the task that finished last.
C26_LastCompletedWins ==
    /\ \A i \in 1..Len(done) : done[i].sets = 1
    /\ (tasks = {} /\ done # <<>>) =>
          Some(store) = merklize(Disk[done[Len(done)].name].buf, TRUE).tx

====
